---- MODULE Spec2Model ----
(***************************************************************************)
(* State-machine model of bedrock_training_pipeline.py: the provisioning   *)
(* and job-lifecycle sequence of BedrockSupportPipeline (bucket, role,     *)
(* job submission, status polling) with its JSON state file, the provider  *)
(* (S3, IAM, Bedrock) as the environment, and main() as the process that   *)
(* is started, fails, is interrupted and is started again.                 *)
(***************************************************************************)
EXTENDS Integers, Sequences, FiniteSets, TLC

(* ------------------------------ bounds -------------------------------- *)

\* Number of processes (python invocations) started in one behaviour.
MaxRuns == 2
\* Number of times a direct caller invokes its method on one pipeline object.
MaxCalls == 2
\* Most rows of a ticket table handed to prepare_training_data.
MaxTickets == 5
\* Largest max_samples handed to prepare_training_data.
MaxSamples == 10
MaxRecords == 2

(* --------------------------- values and names -------------------------- *)

\* Python's None, and the marker of a call that ended by raising.
None == "None"
Raised == "Raised"
\* "not observed yet" in the observer variables.
Unseen == "Unseen"

REGION == "us-east-1"
DefaultBaseModel == "amazon.nova-pro-v1:0"
OtherNovaModel == "amazon.nova-lite-v1:0"

\* f'support-bedrock-training-{timestamp}'
BucketName(ts) == "support-bedrock-training-" \o ToString(ts)
\* f'support-classifier-{timestamp}'
ModelName(ts) == "support-classifier-" \o ToString(ts)
\* f'BedrockSupportTrainingRole-{int(time.time())}'
RoleName(ts) == "BedrockSupportTrainingRole-" \o ToString(ts)
\* response['Role']['Arn'] of a role of that name
RoleArn(name) == "arn:aws:iam::role/" \o name
\* response['jobArn'] of the k-th job the provider accepted from process r
JobArn(r, k) ==
  "arn:aws:bedrock:model-customization-job/" \o ToString(r) \o "-" \o ToString(k)
\* response['outputModelArn'] in the end-to-end scenario
ModelXyz == "model-xyz"
\* A role ARN the caller obtained elsewhere (never recorded by this pipeline).
ForeignRoleArn == RoleArn("ForeignRole")

\* f's3://{bucket_name}/{key}'
S3Uri(bucket_name, key) == "s3://" \o bucket_name \o "/" \o key
train_key == "training/training_data.jsonl"
val_key == "validation/validation_data.jsonl"
\* output_s3_uri = f's3://{self.bucket_name}/output/'
output_s3_uri(bucket_name) == S3Uri(bucket_name, "output/")

\* permission_policy['Statement'][0]['Resource']: the bucket and the
\* objects under it.
PolicyResources(bucket_name) ==
  {"arn:aws:s3:::" \o bucket_name, "arn:aws:s3:::" \o bucket_name \o "/*"}

(* ------------------------- dictionaries and JSON ----------------------- *)

EmptyDict == [k \in {} |-> None]

\* dict.get(key, default)
Get(d, k, default) == IF k \in DOMAIN d THEN d[k] ELSE default

\* d[key] = value
Put(d, k, v) == [x \in DOMAIN d \cup {k} |-> IF x = k THEN v ELSE d[x]]

\* The dictionary d without the keys outside keep.
Restrict(d, keep) == [k \in DOMAIN d \cap keep |-> d[k]]

\* json.dump: None is written as null, a string as itself.
json_dump(d) == [k \in DOMAIN d |-> IF d[k] = None THEN "null" ELSE d[k]]

\* json.load: null is read as None.
json_load(t) == [k \in DOMAIN t |-> IF t[k] = "null" THEN None ELSE t[k]]

(* ------------------------------ job status ----------------------------- *)

\* One status query result: response['status'] and response.get('outputModelArn').
Resp(st, arn) == [status |-> st, outputModelArn |-> arn]

\* The status sources a job can have: the successive query results, and
\* whether the source stays on its last result (the provider: a terminal
\* state is never left) or starts over (a stub cycling through the states).
EndToEndSource ==
  [script |-> << Resp("Submitted", None), Resp("InProgress", None),
                 Resp("InProgress", None), Resp("Completed", ModelXyz) >>,
   cycles |-> FALSE]

FailedSource ==
  [script |-> << Resp("InProgress", None), Resp("Failed", None) >>,
   cycles |-> FALSE]

NoOutputSource ==
  [script |-> << Resp("Completed", None) >>, cycles |-> FALSE]

CyclingSource ==
  [script |-> << Resp("InProgress", None), Resp("Stopped", None),
                 Resp("Submitted", None), Resp("Completed", ModelXyz),
                 Resp("Failed", None) >>,
   cycles |-> TRUE]

StatusSources ==
  {EndToEndSource, FailedSource, NoOutputSource, CyclingSource}

TerminalStatuses == {"Completed", "Failed", "Stopped"}

\* Position of the next query result of a source, after n results were read.
NextPos(src, n) ==
  IF src.cycles
  THEN (n % Len(src.script)) + 1
  ELSE IF n < Len(src.script) THEN n + 1 ELSE Len(src.script)

\* get_model_customization_job: the result of the (n+1)-th query.
QueryResult(src, n) == src.script[NextPos(src, n)]

(* ---------------------------- training data --------------------------- *)

\* A missing cell of the ticket table.
NaN == "NaN"
isna(v) == v = NaN
notna(v) == v # NaN

\* One row of the table, by the three columns the conversion tests.
Row(c, s, r) == [CATEGORY |-> c, SEVERITY |-> s, RESOLUTION_DESCRIPTION |-> r]

FullTicket == Row("Billing", "High", "Restart the service")

\* A ticket that was not resolved.
OpenTicket == Row("Billing", "High", NaN)

\* The rows the conversion skips: no category, or no severity.
SkippedRows == {Row(NaN, "High", "Restart"), Row("Billing", NaN, "Restart")}

\* The tables of at most n rows: resolved tickets, open tickets and rows
\* with the one or the other column missing.
Frames(n) ==
  UNION {[1..k -> {FullTicket, OpenTicket, skipped}] :
           k \in 0..n, skipped \in SkippedRows}

\* train_ratio, a fraction: the defaults and the two ends.
Ratio(n, d) == [num |-> n, den |-> d]
DefaultTrainRatio == Ratio(4, 5)
TrainRatios == {Ratio(0, 1), Ratio(1, 2), DefaultTrainRatio, Ratio(1, 1)}

\* max_samples=10000
DefaultMaxSamples == 10000

\* What pd.read_csv(csv_file) gives run_pipeline: three complete tickets,
\* or five.
ThreeTickets == [i \in 1..3 |-> FullTicket]
FiveTickets == [i \in 1..5 |-> FullTicket]
CsvFrames == {ThreeTickets, FiveTickets}

\* max_tickets = max_samples // 2
max_tickets(max_samples) == max_samples \div 2

\* The ways to pick k of n rows, in any order.
Picks ==
  [n \in 0..MaxTickets |->
     [k \in 0..n |->
        {p \in [1..k -> 1..n] :
           \A i, j \in 1..k : i # j => p[i] # p[j]}]]

\* df.sample(n=k, random_state=42): k rows of df, which ones and in which
\* order is up to the generator.
Samples(df, k) == {[i \in 1..k |-> df[p[i]]] : p \in Picks[Len(df)][k]}

\* A call that keeps every row of the table it is given.
Limited_all_rows(df, max_samples) == {df}

\* The tables the conversion can go on with: df itself, or a sample of it
\* when it has more than max_tickets rows.
Limited(df, max_samples) ==
  IF Len(df) > max_tickets(max_samples)
  THEN Samples(df, max_tickets(max_samples))
  ELSE {df}

\* train_size = int(total_records * train_ratio)
train_size(total_records, train_ratio) ==
  (total_records * train_ratio.num) \div train_ratio.den

\* The examples one row of train_df adds to training_data.
TrainingExamplesOf(row) ==
  IF isna(row.CATEGORY) \/ isna(row.SEVERITY)
  THEN << >>
  ELSE IF notna(row.RESOLUTION_DESCRIPTION) /\ row.RESOLUTION_DESCRIPTION # ""
  THEN <<"classification", "resolution">>
  ELSE <<"classification">>

\* The examples one row of val_df adds to validation_data.
ValidationExamplesOf(row) ==
  IF isna(row.CATEGORY) \/ isna(row.SEVERITY)
  THEN << >>
  ELSE <<"classification">>

\* for idx, row in train_df.iterrows(): ...
RECURSIVE TrainingData(_)
TrainingData(rows) ==
  IF rows = << >> THEN << >>
  ELSE TrainingExamplesOf(Head(rows)) \o TrainingData(Tail(rows))

\* for idx, row in val_df.iterrows(): ...
RECURSIVE ValidationData(_)
ValidationData(rows) ==
  IF rows = << >> THEN << >>
  ELSE ValidationExamplesOf(Head(rows)) \o ValidationData(Tail(rows))

\* training_data[:max_samples] when training_data is longer.
Trimmed(training_data, max_samples) ==
  IF Len(training_data) > max_samples
  THEN SubSeq(training_data, 1, max_samples)
  ELSE training_data

\* The two lists of examples made from the table df.
Converted(df, train_ratio, max_samples) ==
  LET n == train_size(Len(df), train_ratio)
  IN [training_data   |-> Trimmed(TrainingData(SubSeq(df, 1, n)),
                                  max_samples),
      validation_data |-> ValidationData(SubSeq(df, n + 1, Len(df)))]

(* -------------------------------- state ------------------------------- *)

VARIABLES
  buckets,      \* S3: names of the buckets that exist
  versioned,    \* S3: buckets with versioning enabled
  roles,        \* IAM: names of the roles that exist
  policies,     \* IAM: roles that carry the BedrockS3Access policy
  scope,        \* IAM: the Resource list of that policy, by role
  jobs,         \* Bedrock: the jobs accepted from the current process, in
                \* order of acceptance (no later process has their handles:
                \* nothing reads a job ARN back from the state file)
  fileExists,   \* os.path.exists(config_file)
  stateFile,    \* the text of config_file (a JSON object)
  clock,        \* int(time.time()), in units of one process: each process
                \* starts later than everything the one before it did
  resume,       \* main(): the configuration it found at startup and the
                \* operator's response to "Use existing resources?"
  pc,           \* where the process is: "off", a request of a method,
                \* "caller" (between two calls), "exited"
  mode,         \* "pipeline": main() runs run_pipeline; "api": a caller
                \* invokes one method of a pipeline object directly, again
                \* and again
  rp,           \* the statement of run_pipeline that is next; for a direct
                \* caller, the method it invokes
  self,         \* the attributes of the BedrockSupportPipeline object
  config,       \* self.config
  loc,          \* the locals of run_pipeline
  exit,         \* how the last process ended
  runs,         \* processes started so far
  ncalls,       \* direct calls made on the current object
  cnt,          \* requests, sleeps and saves of the current process
  made,         \* what the current process created at the provider
  cur,          \* the call in progress: method, argument, state at entry
  lastCall,     \* the call that returned last: result and effect
  okCalls,      \* the methods that have returned to the current process
  reused,       \* the names create_s3_bucket returned to the current
                \* process when the recorded bucket was there
  monSeen,      \* values monitor_training_job has returned, by cause
  prep,         \* the last call of prepare_training_data: its arguments,
                \* the examples it made, the files it wrote
  deploy,       \* test_model.py: the call of ModelTester in progress, with
                \* the locals of _wait_for_deployment
  suite,        \* test_model.py: run_test_suite, its position and results
  gen           \* generate_support_data.py: generate_dataset, its tickets

provVars == <<buckets, versioned, roles, policies, scope, jobs>>
fileVars == <<fileExists, stateFile>>
objVars  == <<self, config>>
vars == <<buckets, versioned, roles, policies, scope, jobs, fileExists,
          stateFile, clock, resume, pc, mode, rp, self, config, loc, exit, runs, ncalls, cnt,
          made, cur, lastCall, okCalls, reused, monSeen, prep, deploy,
          suite, gen>>

\* The variables of the pipeline, and those of the two other scripts.
pipelineVars == <<buckets, versioned, roles, policies, scope, jobs, fileExists,
                  stateFile, clock, resume, pc, mode, rp, self, config, loc,
                  exit, runs, ncalls, cnt, made, cur, lastCall, okCalls,
                  reused, monSeen, prep>>
toolVars == <<deploy, suite, gen>>

\* What the return of a call sets.
callVars == <<pc, lastCall, cur, loc, rp, exit, okCalls, reused>>

Requests ==
  {"list_foundation_models", "head_bucket", "create_bucket",
   "put_bucket_versioning", "get_role", "create_role", "put_role_policy",
   "settle_sleep", "prepare", "write_file", "upload_file", "create_job", "get_job",
   "poll_sleep", "save", "test", "cleanup"}

ZeroCnt == [r \in Requests |-> 0]
Inc(c, r) == [c EXCEPT ![r] = @ + 1]

NoLoc == [role_arn |-> None, job_arn |-> None, model_arn |-> None]
NoMade == [bucket |-> None, role |-> None, job |-> None]
NoCall == [m |-> None]
NoOutcome == [cause |-> Unseen, ret |-> Unseen]
NoSeen == [interrupted |-> Unseen, failed |-> Unseen]

\* The arguments of cleanup_resources(delete_bucket, delete_role).
CleanupFlags(delete_bucket, delete_role) ==
  [delete_bucket |-> delete_bucket, delete_role |-> delete_role]

\* A call of prepare_training_data(df, train_ratio, max_samples), entered.
PrepCall(df, train_ratio, max_samples) ==
  [state |-> "called", df |-> df, train_ratio |-> train_ratio,
   max_samples |-> max_samples, training_data |-> << >>,
   validation_data |-> << >>, written |-> {}]

NoPrep ==
  [PrepCall(<< >>, DefaultTrainRatio, DefaultMaxSamples)
     EXCEPT !.state = "none"]

\* What main() found and was told: asked is whether the state file was
\* there, old the configuration loaded from it.
Resumed(asked, response, old) ==
  [asked |-> asked, response |-> response, old |-> old]

NoResume == Resumed(FALSE, None, EmptyDict)

\* No call of ModelTester has been made.
NoDeploy ==
  [pc |-> "idle", call |-> None, max_wait_time |-> 0, elapsed |-> 0,
   consecutive_errors |-> 0, queries |-> 0, errors |-> 0, streak |-> 0,
   active |-> FALSE, terminal |-> FALSE, late |-> 0, wait_ret |-> None,
   cause |-> None, deployment_arn |-> None, ret |-> None]

\* run_test_suite has not been called.
NoSuite ==
  [pc |-> "idle", i |-> 0, invoked |-> << >>, results |-> << >>,
   ret |-> << >>]

\* generate_dataset has not been called.
NoDataset ==
  [pc |-> "idle", num_records |-> 0, tickets |-> << >>, df |-> << >>]

(* ------------------------- the pipeline object ------------------------- *)

\* _load_config
_load_config(exists, text) == IF exists THEN json_load(text) ELSE EmptyDict

\* __init__ with the recorded bucket name ignored: a new name every time.
init_new_bucket_name(cfg, ts) ==
  [bucket_name   |-> BucketName(ts),
   model_name    |-> Get(cfg, "model_name", ModelName(ts)),
   role_arn      |-> Get(cfg, "role_arn", None),
   role_name     |-> Get(cfg, "role_name", None),
   base_model_id |-> Get(cfg, "base_model_id", DefaultBaseModel)]

\* __init__: identifiers come from the configuration, else from the time.
__init__(cfg, ts) ==
  [bucket_name   |-> Get(cfg, "bucket_name", BucketName(ts)),
   model_name    |-> Get(cfg, "model_name", ModelName(ts)),
   role_arn      |-> Get(cfg, "role_arn", None),
   role_name     |-> Get(cfg, "role_name", None),
   base_model_id |-> Get(cfg, "base_model_id", DefaultBaseModel)]

\* config_data that leaves the role name out.
config_data_without_role_name(obj, now) ==
  [bucket_name  |-> obj.bucket_name,
   model_name   |-> obj.model_name,
   role_arn     |-> obj.role_arn,
   region       |-> REGION,
   last_updated |-> ToString(now)]

\* config_data of _save_config
config_data(obj, now) ==
  [bucket_name  |-> obj.bucket_name,
   model_name   |-> obj.model_name,
   role_arn     |-> obj.role_arn,
   role_name    |-> obj.role_name,
   region       |-> REGION,
   last_updated |-> ToString(now)]

\* _save_config, as the text written to config_file
_save_config(obj, now) == json_dump(config_data(obj, now))

\* What a process starting now would find recorded under key k.
Recorded(k) == Get(_load_config(fileExists, stateFile), k, None)

(* ------------------------------- calls --------------------------------- *)

\* create_iam_role without the probe of the recorded role.
FirstPc_no_probe(m, obj) ==
  CASE m = "list_available_models"  -> "list_foundation_models"
    [] m = "create_s3_bucket"       -> "head_bucket"
    [] m = "create_iam_role"        -> "create_role"
    [] m = "prepare_training_data"  -> "prepare"
    [] m = "upload_to_s3"           -> "upload_train"
    [] m = "create_fine_tuning_job" -> "create_job"
    [] m = "monitor_training_job"   -> "get_job"
    [] m = "test_fine_tuned_model"  -> "test"
    [] m = "cleanup_resources"      -> "cleanup"

\* The first request of a method, given the object it is called on.
FirstPc(m, obj) ==
  CASE m = "list_available_models"  -> "list_foundation_models"
    [] m = "create_s3_bucket"       -> "head_bucket"
    [] m = "create_iam_role"        ->
         IF obj.role_arn # None THEN "get_role" ELSE "create_role"
    [] m = "prepare_training_data"  -> "prepare"
    [] m = "upload_to_s3"           -> "upload_train"
    [] m = "create_fine_tuning_job" -> "create_job"
    [] m = "monitor_training_job"   -> "get_job"
    [] m = "test_fine_tuned_model"  -> "test"
    [] m = "cleanup_resources"      -> "cleanup"

\* job_arn.split('/')[-1], resolved by the provider to the job it names.
JobOf(arn) == CHOOSE k \in DOMAIN jobs : JobArn(runs, k) = arn

\* Facts at the entry of a call that the properties of the call refer to.
EntryFacts(m, arg) ==
  [recBucket    |-> Recorded("bucket_name"),
   bucketExists |-> Recorded("bucket_name") \in buckets,
   recRoleArn   |-> Recorded("role_arn"),
   recRoleName  |-> Recorded("role_name"),
   roleExists   |-> Recorded("role_name") \in roles,
   objRoleArn   |-> self.role_arn,
   terminal     |-> IF m = "monitor_training_job"
                    THEN jobs[JobOf(arg)].returned
                    ELSE NoOutcome]

\* A method is called.
Enter(m, arg) ==
  /\ pc' = FirstPc(m, self)
  /\ cur' = [m |-> m, arg |-> arg, cnt0 |-> cnt, exists0 |-> fileExists,
             file0 |-> stateFile, pre |-> EntryFacts(m, arg)]

\* run_pipeline with the role ensured before the bucket.
NextStatement_role_first(m, v) ==
  CASE m = "list_available_models"  -> "use_model"
    [] m = "use_model"              -> "create_iam_role"
    [] m = "create_iam_role"        -> "create_s3_bucket"
    [] m = "create_s3_bucket"       -> "prepare_training_data"
    [] m = "prepare_training_data"  -> "upload_to_s3"
    [] m = "upload_to_s3"           -> "create_fine_tuning_job"
    [] m = "create_fine_tuning_job" -> "monitor_training_job"
    [] m = "monitor_training_job"   ->
         IF v # None THEN "test_fine_tuned_model" ELSE "cleanup_resources"
    [] m = "test_fine_tuned_model"  -> "cleanup_resources"
    [] m = "cleanup_resources"      -> "return"

\* run_pipeline with the model test run whatever the monitor returned.
NextStatement_always_test(m, v) ==
  CASE m = "list_available_models"  -> "use_model"
    [] m = "use_model"              -> "create_s3_bucket"
    [] m = "create_s3_bucket"       -> "create_iam_role"
    [] m = "create_iam_role"        -> "prepare_training_data"
    [] m = "prepare_training_data"  -> "upload_to_s3"
    [] m = "upload_to_s3"           -> "create_fine_tuning_job"
    [] m = "create_fine_tuning_job" -> "monitor_training_job"
    [] m = "monitor_training_job"   -> "test_fine_tuned_model"
    [] m = "test_fine_tuned_model"  -> "cleanup_resources"
    [] m = "cleanup_resources"      -> "return"

\* The statement of run_pipeline that follows the call of m.
NextStatement(m, v) ==
  CASE m = "list_available_models"  -> "use_model"
    [] m = "use_model"              -> "create_s3_bucket"
    [] m = "create_s3_bucket"       -> "create_iam_role"
    [] m = "create_iam_role"        -> "prepare_training_data"
    [] m = "prepare_training_data"  -> "upload_to_s3"
    [] m = "upload_to_s3"           -> "create_fine_tuning_job"
    [] m = "create_fine_tuning_job" -> "monitor_training_job"
    [] m = "monitor_training_job"   ->
         IF v # None THEN "test_fine_tuned_model" ELSE "cleanup_resources"
    [] m = "test_fine_tuned_model"  -> "cleanup_resources"
    [] m = "cleanup_resources"      -> "return"

\* The local of run_pipeline that receives the value of the call of m.
Assign(l, m, v) ==
  CASE m = "create_iam_role"        -> [l EXCEPT !.role_arn = v]
    [] m = "create_fine_tuning_job" -> [l EXCEPT !.job_arn = v]
    [] m = "monitor_training_job"   -> [l EXCEPT !.model_arn = v]
    [] OTHER -> l

\* The record of a finished call. It reads the state the call leaves.
Finished(v, cause) ==
  [m |-> cur.m, arg |-> cur.arg, ret |-> v, cause |-> cause,
   d |-> [r \in Requests |-> cnt'[r] - cur.cnt0[r]],
   fileSame |-> fileExists' = cur.exists0 /\ stateFile' = cur.file0,
   pre |-> cur.pre]

\* Whether the call was entered with a bucket recorded in the state file
\* and present at the provider.
BucketWasThere(call) ==
  /\ call.m = "create_s3_bucket"
  /\ call.pre.recBucket # None
  /\ call.pre.bucketExists

\* The method returns v to its caller.
Return(v, cause) ==
  /\ pc' = "caller"
  /\ lastCall' = Finished(v, cause)
  /\ cur' = NoCall
  /\ okCalls' = okCalls \cup {cur.m}
  /\ reused' = IF BucketWasThere(cur) THEN reused \cup {v} ELSE reused
  /\ loc' = IF mode = "pipeline" THEN Assign(loc, cur.m, v) ELSE loc
  /\ rp' = IF mode = "pipeline" THEN NextStatement(cur.m, v) ELSE rp
  /\ exit' = exit

\* The method raises. run_pipeline re-raises and main() ends the process; a
\* direct caller catches the exception and goes on.
Raise ==
  /\ lastCall' = Finished(Raised, "raised")
  /\ cur' = NoCall
  /\ pc' = IF mode = "pipeline" THEN "exited" ELSE "caller"
  /\ exit' = IF mode = "pipeline" THEN "raised" ELSE exit
  /\ UNCHANGED <<loc, rp, okCalls, reused>>

\* The method goes on to its next request.
Goto(next) ==
  /\ pc' = next
  /\ UNCHANGED <<lastCall, cur, loc, rp, exit, okCalls, reused>>

\* self._save_config()
Save(obj) ==
  /\ fileExists' = TRUE
  /\ stateFile' = _save_config(obj, clock)

(* ------------------------------ processes ------------------------------ *)

Init ==
  /\ buckets = {} /\ versioned = {} /\ roles = {} /\ policies = {}
  /\ scope = EmptyDict
  /\ jobs = << >>
  /\ fileExists = FALSE /\ stateFile = EmptyDict
  /\ clock = 0
  /\ resume = NoResume
  /\ pc = "off" /\ mode = "pipeline" /\ rp = "return"
  /\ self = __init__(EmptyDict, 0) /\ config = EmptyDict
  /\ loc = NoLoc /\ exit = "none"
  /\ runs = 0 /\ ncalls = 0
  /\ cnt = ZeroCnt /\ made = NoMade
  /\ cur = NoCall /\ lastCall = NoCall
  /\ okCalls = {} /\ reused = {}
  /\ monSeen = NoSeen
  /\ prep = NoPrep
  /\ deploy = NoDeploy
  /\ suite = NoSuite
  /\ gen = NoDataset

\* What every new process starts with.
Fresh ==
  /\ runs' = runs + 1
  /\ clock' = clock + 1
  /\ ncalls' = 0
  /\ cnt' = ZeroCnt
  /\ made' = NoMade
  /\ loc' = NoLoc
  /\ cur' = NoCall
  /\ lastCall' = NoCall
  /\ okCalls' = {} /\ reused' = {}
  /\ exit' = "none"
  /\ monSeen' = NoSeen
  /\ prep' = NoPrep
  /\ pc' = "caller"
  /\ UNCHANGED provVars

\* What the operator types at the prompt "Use existing resources? (y/N)".
Answers == {"y", " Y", "n", ""}

\* input(...).strip().lower()
strip_lower(answer) == IF answer = " Y" THEN "y" ELSE answer

\* main() that removes the state file and goes on with the pipeline object
\* it constructed before it asked.
main_no_reconstruct ==
  /\ pc = "off"
  /\ runs < MaxRuns
  /\ \E answer \in Answers :
       LET response == strip_lower(answer)
       IN /\ fileExists' = (fileExists /\ response = "y")
          /\ stateFile' = IF fileExists' THEN stateFile ELSE EmptyDict
          /\ resume' = Resumed(fileExists,
                               IF fileExists THEN response ELSE None,
                               _load_config(fileExists, stateFile))
  /\ config' = _load_config(fileExists, stateFile)
  /\ self' = __init__(config', clock + 1)
  /\ mode' = "pipeline"
  /\ rp' = "list_available_models"
  /\ UNCHANGED toolVars
  /\ Fresh

\* main(): construct the pipeline; if the state file is there, ask whether
\* to use it, and on any response but 'y' remove it and construct again.
main ==
  /\ pc = "off"
  /\ runs < MaxRuns
  /\ \E answer \in Answers :
       LET response == strip_lower(answer)
       IN /\ fileExists' = (fileExists /\ response = "y")
          /\ stateFile' = IF fileExists' THEN stateFile ELSE EmptyDict
          /\ resume' = Resumed(fileExists,
                               IF fileExists THEN response ELSE None,
                               _load_config(fileExists, stateFile))
  /\ config' = _load_config(fileExists', stateFile')
  /\ self' = __init__(config', clock + 1)
  /\ mode' = "pipeline"
  /\ rp' = "list_available_models"
  /\ UNCHANGED toolVars
  /\ Fresh

\* The methods a direct caller invokes.
DirectMethods ==
  {"create_s3_bucket", "create_iam_role", "create_fine_tuning_job",
   "monitor_training_job", "cleanup_resources"}

\* The two methods that provision, for a caller that invokes both on one
\* object, in the order it likes.
ProvisioningMethods == {"create_s3_bucket", "create_iam_role"}

\* A caller other than main() constructs a pipeline object to invoke one of
\* its methods directly.
construct ==
  /\ pc = "off"
  /\ runs < MaxRuns
  /\ config' = _load_config(fileExists, stateFile)
  /\ self' = __init__(config', clock + 1)
  /\ mode' = "api"
  /\ \E m \in DirectMethods \cup {"provision"} : rp' = m
  /\ resume' = NoResume
  /\ UNCHANGED toolVars
  /\ Fresh
  /\ UNCHANGED fileVars

\* run_pipeline calls its next method.
run_pipeline_call ==
  /\ pc = "caller" /\ mode = "pipeline"
  /\ rp \notin {"use_model", "return"}
  /\ Enter(rp, CASE rp = "create_fine_tuning_job" -> loc.role_arn
                 [] rp = "monitor_training_job"   -> loc.job_arn
                 [] rp = "test_fine_tuned_model"  -> loc.model_arn
                 [] rp = "cleanup_resources"      ->
                      CleanupFlags(FALSE, FALSE)
                 [] OTHER -> None)
  /\ IF rp = "prepare_training_data"
     THEN \E df \in CsvFrames :
            prep' = PrepCall(df, DefaultTrainRatio, DefaultMaxSamples)
     ELSE UNCHANGED prep
  /\ UNCHANGED <<provVars, fileVars, objVars, clock, resume, toolVars, mode, rp, loc, exit,
                 runs, ncalls, cnt, made, lastCall, okCalls, reused, monSeen>>

\* run_pipeline, after list_available_models: adopt a discovered model.
run_pipeline_use_model ==
  /\ pc = "caller" /\ mode = "pipeline" /\ rp = "use_model"
  /\ IF lastCall.ret # None /\ lastCall.ret # self.base_model_id
     THEN /\ self' = [self EXCEPT !.base_model_id = lastCall.ret]
          /\ config' = Put(config, "base_model_id", lastCall.ret)
          /\ Save(self')
          /\ cnt' = Inc(cnt, "save")
     ELSE UNCHANGED <<self, config, fileVars, cnt>>
  /\ rp' = NextStatement("use_model", None)
  /\ UNCHANGED <<provVars, clock, resume, toolVars, prep, pc, mode, loc, exit, runs, ncalls,
                 made, cur, lastCall, okCalls, reused, monSeen>>

\* run_pipeline returns its result and main() ends.
run_pipeline_return ==
  /\ pc = "caller" /\ mode = "pipeline" /\ rp = "return"
  /\ pc' = "exited"
  /\ exit' = "returned"
  /\ UNCHANGED <<provVars, fileVars, objVars, clock, resume, toolVars, prep, mode, rp, loc,
                 runs, ncalls, cnt, made, cur, lastCall, okCalls, reused,
                 monSeen>>

\* The dictionary run_pipeline returns.
run_pipeline_result ==
  [bucket |-> self.bucket_name, role_arn |-> loc.role_arn,
   job_arn |-> loc.job_arn, model_arn |-> loc.model_arn,
   base_model_id |-> self.base_model_id]

\* The role ARNs a direct caller passes to create_fine_tuning_job: the one
\* the object holds, or one it has from elsewhere.
RoleArguments == ({self.role_arn} \ {None}) \cup {ForeignRoleArn}

\* A direct caller invokes its method. To have a job to monitor, the caller
\* of monitor_training_job first submits one.
call_method ==
  /\ pc = "caller" /\ mode = "api"
  /\ \/ /\ rp \in {"create_s3_bucket", "create_iam_role"}
        /\ ncalls < MaxCalls
        /\ ncalls' = ncalls + 1
        /\ Enter(rp, None)
     \/ /\ rp = "create_fine_tuning_job"
        /\ ncalls < MaxCalls
        /\ ncalls' = ncalls + 1
        /\ \E r \in RoleArguments : Enter(rp, r)
     \/ /\ rp = "monitor_training_job"
        /\ lastCall = NoCall
        /\ ncalls' = ncalls
        /\ \E r \in RoleArguments : Enter("create_fine_tuning_job", r)
     \/ /\ rp = "monitor_training_job"
        /\ ncalls < MaxCalls
        /\ ncalls' = ncalls + 1
        /\ \E k \in DOMAIN jobs :
             Enter("monitor_training_job", JobArn(runs, k))
     \/ /\ rp = "provision"
        /\ ncalls < MaxCalls
        /\ ncalls' = ncalls + 1
        /\ \E m \in ProvisioningMethods : Enter(m, None)
     \/ /\ rp = "cleanup_resources"
        /\ ncalls < MaxCalls
        /\ ncalls' = ncalls + 1
        /\ \E delete_bucket, delete_role \in BOOLEAN :
             Enter(rp, CleanupFlags(delete_bucket, delete_role))
  /\ UNCHANGED <<provVars, fileVars, objVars, clock, resume, toolVars, prep, mode, rp, loc,
                 exit, runs, cnt, made, lastCall, okCalls, reused, monSeen>>

\* The direct caller is done with the object.
caller_exit ==
  /\ pc = "caller" /\ mode = "api"
  /\ pc' = "exited"
  /\ exit' = "returned"
  /\ UNCHANGED <<provVars, fileVars, objVars, clock, resume, toolVars, prep, mode, rp, loc,
                 runs, ncalls, cnt, made, cur, lastCall, okCalls, reused,
                 monSeen>>

\* A caller constructs a pipeline object to convert a ticket table of its
\* own with prepare_training_data.
construct_for_data ==
  /\ pc = "off"
  /\ runs = 0
  /\ config' = _load_config(fileExists, stateFile)
  /\ self' = __init__(config', clock + 1)
  /\ mode' = "api"
  /\ rp' = "prepare_training_data"
  /\ resume' = NoResume
  /\ UNCHANGED toolVars
  /\ Fresh
  /\ UNCHANGED fileVars

\* The caller invokes prepare_training_data(df, train_ratio, max_samples).
call_prepare ==
  /\ pc = "caller" /\ mode = "api"
  /\ rp = "prepare_training_data"
  /\ ncalls = 0
  /\ ncalls' = ncalls + 1
  /\ \E df \in Frames(MaxTickets), train_ratio \in TrainRatios,
        max_samples \in 0..MaxSamples :
       prep' = PrepCall(df, train_ratio, max_samples)
  /\ Enter(rp, None)
  /\ UNCHANGED <<provVars, fileVars, objVars, clock, resume, toolVars, mode, rp, loc, exit,
                 runs, cnt, made, lastCall, okCalls, reused, monSeen>>

(* ------------------------- list_available_models ----------------------- *)

\* list_foundation_models: the first Nova model of the answer, or None when
\* there is none or the request fails (the error is caught).
list_available_models ==
  /\ pc = "list_foundation_models"
  /\ cnt' = Inc(cnt, "list_foundation_models")
  /\ UNCHANGED <<provVars, fileVars, objVars, clock, resume, toolVars, prep, mode, runs, ncalls,
                 made, monSeen>>
  /\ \E found \in {None, DefaultBaseModel, OtherNovaModel} :
       Return(found, "returned")

(* ---------------------------- create_s3_bucket ------------------------- *)

\* head_bucket, answered by the provider from the buckets it holds. It
\* succeeds: the bucket is reused and the state saved. It fails: the error
\* is swallowed and the bucket is created.
create_s3_bucket_head ==
  /\ pc = "head_bucket"
  /\ UNCHANGED <<provVars, objVars, clock, resume, toolVars, prep, mode, runs, ncalls, made,
                 monSeen>>
  /\ IF self.bucket_name \in buckets
     THEN /\ Save(self)
          /\ cnt' = Inc(Inc(cnt, "head_bucket"), "save")
          /\ Return(self.bucket_name, "reused")
     ELSE /\ cnt' = Inc(cnt, "head_bucket")
          /\ UNCHANGED fileVars
          /\ Goto("create_bucket")

\* create_bucket in a method that sends the request again when it is
\* rejected.
create_s3_bucket_create_retries ==
  /\ pc = "create_bucket"
  /\ cnt' = Inc(cnt, "create_bucket")
  /\ UNCHANGED <<versioned, roles, policies, scope, jobs, fileVars, objVars, clock, resume, toolVars,
                 prep, mode, runs, ncalls, monSeen>>
  /\ \E ok \in BOOLEAN :
       IF ok
       THEN /\ buckets' = buckets \cup {self.bucket_name}
            /\ made' = [made EXCEPT !.bucket = self.bucket_name]
            /\ Goto("put_bucket_versioning")
       ELSE /\ UNCHANGED <<buckets, made>>
            /\ cnt.create_bucket < 2
            /\ Goto("create_bucket")

\* create_bucket: accepted or rejected by the provider.
create_s3_bucket_create ==
  /\ pc = "create_bucket"
  /\ cnt' = Inc(cnt, "create_bucket")
  /\ UNCHANGED <<versioned, roles, policies, scope, jobs, fileVars, objVars, clock, resume, toolVars,
                 prep, mode, runs, ncalls, monSeen>>
  /\ \E ok \in BOOLEAN :
       IF ok
       THEN /\ buckets' = buckets \cup {self.bucket_name}
            /\ made' = [made EXCEPT !.bucket = self.bucket_name]
            /\ Goto("put_bucket_versioning")
       ELSE /\ UNCHANGED <<buckets, made>>
            /\ Raise

\* put_bucket_versioning, then the state is saved and the name returned.
create_s3_bucket_versioning ==
  /\ pc = "put_bucket_versioning"
  /\ UNCHANGED <<buckets, roles, policies, scope, jobs, objVars, clock, resume, toolVars, prep, mode,
                 runs, ncalls, made, monSeen>>
  /\ \E ok \in BOOLEAN :
       IF ok /\ self.bucket_name \in buckets
       THEN /\ versioned' = versioned \cup {self.bucket_name}
            /\ Save(self)
            /\ cnt' = Inc(Inc(cnt, "put_bucket_versioning"), "save")
            /\ Return(self.bucket_name, "created")
       ELSE /\ cnt' = Inc(cnt, "put_bucket_versioning")
            /\ UNCHANGED <<versioned, fileVars>>
            /\ Raise

(* ----------------------------- create_iam_role ------------------------- *)

\* get_role on the recorded role: it is there, the recorded ARN is
\* returned; the probe fails, a new role is created.
create_iam_role_probe ==
  /\ pc = "get_role"
  /\ cnt' = Inc(cnt, "get_role")
  /\ UNCHANGED <<provVars, fileVars, objVars, clock, resume, toolVars, prep, mode, runs, ncalls,
                 made, monSeen>>
  /\ IF self.role_name \in roles
     THEN Return(self.role_arn, "reused")
     ELSE Goto("create_role")

\* create_role under a name made from the time; the name is kept on the
\* object whether the request succeeds or not. (One process creates at most
\* one role: once it has, the probe of that role succeeds. So the names of
\* two roles differ in the process that made them.)
create_iam_role_create ==
  /\ pc = "create_role"
  /\ cnt' = Inc(cnt, "create_role")
  /\ UNCHANGED <<buckets, versioned, policies, scope, jobs, fileVars, config, clock, resume, toolVars,
                 prep, mode, runs, ncalls, monSeen>>
  /\ \E ok \in BOOLEAN :
       IF ok /\ RoleName(clock) \notin roles
       THEN /\ roles' = roles \cup {RoleName(clock)}
            /\ self' = [self EXCEPT !.role_name = RoleName(clock),
                                    !.role_arn = RoleArn(RoleName(clock))]
            /\ made' = [made EXCEPT !.role = RoleName(clock)]
            /\ Goto("put_role_policy")
       ELSE /\ self' = [self EXCEPT !.role_name = RoleName(clock)]
            /\ UNCHANGED <<roles, made>>
            /\ Raise

\* put_role_policy in a method that saves the new role before it raises.
create_iam_role_policy_saves ==
  /\ pc = "put_role_policy"
  /\ UNCHANGED <<buckets, versioned, roles, jobs, objVars, clock, resume, toolVars, prep, mode,
                 runs, ncalls, made, monSeen>>
  /\ \E ok \in BOOLEAN :
       IF ok /\ self.role_name \in roles
       THEN /\ policies' = policies \cup {self.role_name}
            /\ scope' = Put(scope, self.role_name,
                            PolicyResources(self.bucket_name))
            /\ cnt' = Inc(cnt, "put_role_policy")
            /\ UNCHANGED fileVars
            /\ Goto("settle_sleep")
       ELSE /\ UNCHANGED <<policies, scope>>
            /\ Save(self)
            /\ cnt' = Inc(Inc(cnt, "put_role_policy"), "save")
            /\ Raise

\* put_role_policy with the permission policy scoped to the bucket.
create_iam_role_policy ==
  /\ pc = "put_role_policy"
  /\ cnt' = Inc(cnt, "put_role_policy")
  /\ UNCHANGED <<buckets, versioned, roles, jobs, fileVars, objVars, clock, resume, toolVars,
                 prep, mode, runs, ncalls, made, monSeen>>
  /\ \E ok \in BOOLEAN :
       IF ok /\ self.role_name \in roles
       THEN /\ policies' = policies \cup {self.role_name}
            /\ scope' = Put(scope, self.role_name,
                            PolicyResources(self.bucket_name))
            /\ Goto("settle_sleep")
       ELSE /\ UNCHANGED <<policies, scope>>
            /\ Raise

\* The end of create_iam_role without the wait.
create_iam_role_no_settle ==
  /\ pc = "settle_sleep"
  /\ Save(self)
  /\ cnt' = Inc(cnt, "save")
  /\ UNCHANGED <<provVars, objVars, clock, resume, toolVars, prep, mode, runs, ncalls, made,
                 monSeen>>
  /\ Return(self.role_arn, "created")

\* time.sleep(10), then the state is saved and the ARN returned.
create_iam_role_settle ==
  /\ pc = "settle_sleep"
  /\ Save(self)
  /\ cnt' = Inc(Inc(cnt, "settle_sleep"), "save")
  /\ UNCHANGED <<provVars, objVars, clock, resume, toolVars, prep, mode, runs, ncalls, made,
                 monSeen>>
  /\ Return(self.role_arn, "created")

(* ------------------- prepare_training_data, upload_to_s3 --------------- *)

\* The floor on the number of training examples.
MinTrainingSamples == 8

\* A floor that lets every training set through.
BelowFloor_never(training_data) == FALSE

\* if len(training_data) < 8: raise ValueError
BelowFloor(training_data) == Len(training_data) < MinTrainingSamples

\* The files prepare_training_data writes.
DatasetFiles == {"training_data.jsonl", "validation_data.jsonl"}

\* prepare_training_data: the table is cut to max_tickets rows, split and
\* converted; with fewer training examples than the floor it raises, else
\* it writes the two files and returns their names.
prepare_training_data ==
  /\ pc = "prepare"
  /\ UNCHANGED <<provVars, fileVars, objVars, clock, resume, toolVars, mode, runs, ncalls,
                 made, monSeen>>
  /\ \E out \in {Converted(sample, prep.train_ratio, prep.max_samples) :
                    sample \in Limited(prep.df, prep.max_samples)} :
       LET lists == [prep EXCEPT !.training_data = out.training_data,
                                 !.validation_data = out.validation_data]
       IN IF BelowFloor(out.training_data)
          THEN /\ prep' = [lists EXCEPT !.state = "raised"]
               /\ cnt' = Inc(cnt, "prepare")
               /\ Raise
          ELSE /\ prep' = [lists EXCEPT !.state = "returned",
                                        !.written = DatasetFiles]
               /\ cnt' = Inc(Inc(Inc(cnt, "prepare"), "write_file"),
                             "write_file")
               /\ Return(None, "returned")

\* return train_s3_uri, val_s3_uri: what run_pipeline hands on to
\* create_fine_tuning_job (and a direct caller likewise).
upload_to_s3_result(obj) ==
  [train |-> S3Uri(obj.bucket_name, train_key),
   val   |-> S3Uri(obj.bucket_name, val_key)]

\* upload_file of the training file.
upload_to_s3_train ==
  /\ pc = "upload_train"
  /\ cnt' = Inc(cnt, "upload_file")
  /\ UNCHANGED <<provVars, fileVars, objVars, clock, resume, toolVars, prep, mode, runs, ncalls,
                 made, monSeen>>
  /\ \E ok \in BOOLEAN :
       IF ok /\ self.bucket_name \in buckets
       THEN Goto("upload_val")
       ELSE Raise

\* upload_file of the validation file.
upload_to_s3_val ==
  /\ pc = "upload_val"
  /\ cnt' = Inc(cnt, "upload_file")
  /\ UNCHANGED <<provVars, fileVars, objVars, clock, resume, toolVars, prep, mode, runs, ncalls,
                 made, monSeen>>
  /\ \E ok \in BOOLEAN :
       IF ok /\ self.bucket_name \in buckets
       THEN Return(None, "returned")
       ELSE Raise

(* -------------------------- create_fine_tuning_job --------------------- *)

\* create_model_customization_job with the role ARN the caller passed. On
\* success the job ARN is put into self.config and _save_config is called.
create_fine_tuning_job ==
  /\ pc = "create_job"
  /\ UNCHANGED <<buckets, versioned, roles, policies, scope, self, clock, resume, toolVars, prep, mode,
                 runs, ncalls, monSeen>>
  /\ \E ok \in BOOLEAN, src \in StatusSources :
       IF ok
       THEN /\ jobs' = Append(jobs, [name |-> self.model_name,
                                     roleArn |-> cur.arg,
                                     trainingData |->
                                       upload_to_s3_result(self).train,
                                     validationData |->
                                       upload_to_s3_result(self).val,
                                     outputData |->
                                       output_s3_uri(self.bucket_name),
                                     src |-> src, n |-> 0,
                                     returned |-> NoOutcome])
            /\ config' = Put(Put(config, "job_arn",
                                 JobArn(runs, Len(jobs'))),
                             "job_name", self.model_name)
            /\ Save(self)
            /\ cnt' = Inc(Inc(cnt, "create_job"), "save")
            /\ made' = [made EXCEPT !.job = JobArn(runs, Len(jobs'))]
            /\ Return(JobArn(runs, Len(jobs')), "created")
       ELSE /\ cnt' = Inc(cnt, "create_job")
            /\ UNCHANGED <<jobs, config, fileVars, made>>
            /\ Raise

(* --------------------------- monitor_training_job ---------------------- *)

\* A loop that never sleeps.
Sleeps_never(resp) == FALSE

\* A loop that also sleeps on a job that has not started.
Sleeps_also_submitted(resp) == resp.status \in {"InProgress", "Submitted"}

\* if status == 'InProgress': ... time.sleep(60)
Sleeps(resp) == resp.status = "InProgress"

\* A loop that is left on whatever status is not slept on.
LeavesLoop_on_any(resp) == TRUE

\* The statuses on which the loop is left.
LeavesLoop(resp) == resp.status \in TerminalStatuses

\* A loop that hands no model identifier back.
monitor_result_none(resp) == None

\* What the method returns when the loop is left on resp.
monitor_result(resp) ==
  IF resp.status = "Completed" /\ resp.outputModelArn # None
  THEN resp.outputModelArn
  ELSE None

\* What a later reader of the source finds after one more query.
Advance(job) ==
  [job EXCEPT !.n = IF job.src.cycles
                    THEN (job.n + 1) % Len(job.src.script)
                    ELSE IF job.n < Len(job.src.script) THEN job.n + 1
                         ELSE job.n]

\* The values returned so far, by cause.
Seen(seen, cause, v) ==
  CASE cause = "interrupted" /\ seen.interrupted = Unseen ->
         [seen EXCEPT !.interrupted = v]
    [] cause \in {"Failed", "Stopped"} /\ seen.failed = Unseen ->
         [seen EXCEPT !.failed = v]
    [] OTHER -> seen

\* The first value returned for a job on a terminal status.
FirstTerminal(job, resp, v) ==
  IF job.returned = NoOutcome
  THEN [job EXCEPT !.returned = [cause |-> resp.status, ret |-> v]]
  ELSE job

\* One status query. It fails: the error is printed and the loop left.
\* InProgress: sleep and query again. Completed, Failed, Stopped: the loop
\* is left. Any other status: query again at once.
monitor_training_job_query ==
  /\ pc = "get_job"
  /\ cnt' = Inc(cnt, "get_job")
  /\ UNCHANGED <<buckets, versioned, roles, policies, scope, fileVars, objVars,
                 clock, resume, toolVars, prep, mode, runs, ncalls, made>>
  /\ LET k == JobOf(cur.arg)
         resp == QueryResult(jobs[k].src, jobs[k].n)
     IN \E ok \in BOOLEAN :
          IF ~ok
          THEN /\ UNCHANGED <<jobs, monSeen>>
               /\ Return(None, "error")
          ELSE IF Sleeps(resp)
          THEN /\ jobs' = [jobs EXCEPT ![k] = Advance(@)]
               /\ UNCHANGED monSeen
               /\ Goto("poll_sleep")
          ELSE IF LeavesLoop(resp)
          THEN /\ jobs' = [jobs EXCEPT ![k] =
                             FirstTerminal(Advance(@), resp,
                                           monitor_result(resp))]
               /\ monSeen' = Seen(monSeen, resp.status, monitor_result(resp))
               /\ Return(monitor_result(resp), resp.status)
          ELSE /\ jobs' = [jobs EXCEPT ![k] = Advance(@)]
               /\ UNCHANGED monSeen
               /\ Goto("get_job")

\* time.sleep(60) between two queries.
monitor_training_job_sleep ==
  /\ pc = "poll_sleep"
  /\ cnt' = Inc(cnt, "poll_sleep")
  /\ UNCHANGED <<provVars, fileVars, objVars, clock, resume, toolVars, prep, mode, runs, ncalls,
                 made, monSeen>>
  /\ Goto("get_job")

(* ---------------- test_fine_tuned_model, cleanup_resources ------------- *)

\* test_fine_tuned_model prints how to invoke the model.
test_fine_tuned_model ==
  /\ pc = "test"
  /\ cnt' = Inc(cnt, "test")
  /\ UNCHANGED <<provVars, fileVars, objVars, clock, resume, toolVars, prep, mode, runs, ncalls,
                 made, monSeen>>
  /\ Return(None, "returned")

\* A cleanup that carries out what its flags name.
cleanup_resources_deletes ==
  /\ pc = "cleanup"
  /\ cnt' = Inc(cnt, "cleanup")
  /\ buckets' = IF cur.arg.delete_bucket
                THEN buckets \ {self.bucket_name} ELSE buckets
  /\ roles' = IF cur.arg.delete_role
              THEN roles \ {self.role_name} ELSE roles
  /\ UNCHANGED <<versioned, policies, scope, jobs, fileVars, objVars, clock, resume, toolVars, prep,
                 mode, runs, ncalls, made, monSeen>>
  /\ Return(None, "returned")

\* cleanup_resources prints a summary of the resources and, for each flag
\* that is set, the commands that would delete the bucket or the role. It
\* sends nothing and changes nothing.
cleanup_resources ==
  /\ pc = "cleanup"
  /\ cnt' = Inc(cnt, "cleanup")
  /\ UNCHANGED <<provVars, fileVars, objVars, clock, resume, toolVars, prep, mode, runs, ncalls,
                 made, monSeen>>
  /\ Return(None, "returned")

(* ------------------------------ environment ---------------------------- *)

\* An interruption of the monitor that also stops the job.
KeyboardInterrupt_stops_job ==
  /\ pc \in {"get_job", "poll_sleep"}
  /\ UNCHANGED <<buckets, versioned, roles, policies, scope, fileVars, objVars,
                 clock, resume, toolVars, prep, mode, runs, ncalls, cnt, made>>
  /\ jobs' = [jobs EXCEPT ![JobOf(cur.arg)].src =
                           [script |-> << Resp("Stopped", None) >>,
                            cycles |-> FALSE],
                         ![JobOf(cur.arg)].n = 0]
  /\ monSeen' = Seen(monSeen, "interrupted", None)
  /\ Return(None, "interrupted")

\* KeyboardInterrupt while a method runs. monitor_training_job catches it
\* and returns None; anywhere else in run_pipeline it ends the process in
\* main().
KeyboardInterrupt ==
  /\ pc \notin {"off", "exited", "caller"}
  /\ UNCHANGED <<provVars, fileVars, objVars, clock, resume, toolVars, prep, mode, runs, ncalls,
                 cnt, made>>
  /\ IF pc \in {"get_job", "poll_sleep"}
     THEN /\ monSeen' = Seen(monSeen, "interrupted", None)
          /\ Return(None, "interrupted")
     ELSE /\ mode = "pipeline"
          /\ UNCHANGED <<monSeen, loc, rp, okCalls, reused>>
          /\ lastCall' = Finished(Raised, "interrupted")
          /\ cur' = NoCall
          /\ pc' = "exited"
          /\ exit' = "interrupted"

\* The process is gone, and with it everything it held in memory: what is
\* left is the state file and what exists at the provider. Of the provider's
\* resources only those the state file names can be named by a later
\* process (every other name is made from a later reading of the time), so
\* only those are kept in the model.
process_ends ==
  /\ pc = "exited"
  /\ pc' = "off"
  /\ self' = __init__(EmptyDict, 0)
  /\ config' = EmptyDict
  /\ mode' = "pipeline" /\ rp' = "return"
  /\ loc' = NoLoc /\ exit' = "none"
  /\ ncalls' = 0 /\ cnt' = ZeroCnt /\ made' = NoMade
  /\ cur' = NoCall /\ lastCall' = NoCall /\ monSeen' = NoSeen
  /\ okCalls' = {} /\ reused' = {}
  /\ jobs' = << >>
  /\ prep' = NoPrep
  /\ resume' = NoResume
  /\ UNCHANGED toolVars
  /\ buckets' = buckets \cap {Recorded("bucket_name")}
  /\ versioned' = versioned \cap {Recorded("bucket_name")}
  /\ roles' = roles \cap {Recorded("role_name")}
  /\ policies' = policies \cap {Recorded("role_name")}
  /\ scope' = Restrict(scope, {Recorded("role_name")})
  /\ UNCHANGED <<fileVars, clock, runs>>

\* Between two processes the operator deletes a bucket or a role by hand,
\* with the commands cleanup_resources prints.
operator_deletes ==
  /\ pc = "off"
  /\ \/ \E b \in buckets :
          /\ buckets' = buckets \ {b}
          /\ versioned' = versioned \ {b}
          /\ UNCHANGED <<roles, policies, scope>>
     \/ \E r \in roles :
          /\ roles' = roles \ {r}
          /\ policies' = policies \ {r}
          /\ scope' = Restrict(scope, policies')
          /\ UNCHANGED <<buckets, versioned>>
  /\ UNCHANGED <<jobs, fileVars, objVars, clock, resume, toolVars, prep, pc, mode, rp, loc,
                 exit, runs, ncalls, cnt, made, cur, lastCall, okCalls,
                 reused, monSeen>>

(* ----------------------- test_model.py: ModelTester -------------------- *)

\* max_consecutive_errors = 6
max_consecutive_errors == 6
\* max_wait_time: int = 600
DefaultMaxWaitTime == 600
\* time.sleep(10), at the end of every iteration that goes on
SleepSeconds == 10

\* The max_wait_time of a direct call of _wait_for_deployment: none, two
\* sleeps and a half, three sleeps, the default.
MaxWaitTimes == {0, 25, 30, DefaultMaxWaitTime}

\* What get_custom_model_deployment answers: a status, in the spelling of
\* the script or of the service, or no status at all.
DeploymentResponses ==
  {[status |-> st] : st \in {"Creating", "Active", "ACTIVE", "FAILED",
                             "STOPPED"}}
    \cup {EmptyDict}

\* response['customModelDeploymentArn']
DeploymentArn == "arn:aws:bedrock:custom-model-deployment/d1"

\* A test that takes the status in either spelling.
IsActive_any_case(status) == status \in {"ACTIVE", "Active"}

\* if status == 'ACTIVE'
IsActive(status) == status = "ACTIVE"

\* elif status in ['FAILED', 'STOPPED']
IsFailed(status) == status \in {"FAILED", "STOPPED"}

\* A loop that keeps its count of errors over a successful query.
after_success_keeps(consecutive_errors) == consecutive_errors

\* consecutive_errors = 0, on a successful call
after_success(consecutive_errors) == 0

\* A sleep of half the time.
after_sleep_short(elapsed) == elapsed + 5

\* time.time() - start_time, after time.sleep(10)
after_sleep(elapsed) == elapsed + SleepSeconds

\* A method that hands the ARN back only for a deployment that is active.
deployment_result_if_active(deployment_arn, waited) ==
  IF waited = "True" THEN deployment_arn ELSE None

\* create_custom_model_deployment: self._wait_for_deployment(deployment_id)
\* (its value is dropped), then return deployment_arn
deployment_result(deployment_arn, waited) == deployment_arn

\* A call of _wait_for_deployment begins: start_time = time.time(),
\* consecutive_errors = 0.
Waiting(call, max_wait_time, deployment_arn) ==
  [NoDeploy EXCEPT !.pc = "loop", !.call = call,
                   !.max_wait_time = max_wait_time,
                   !.deployment_arn = deployment_arn]

\* _wait_for_deployment returns v; when create_custom_model_deployment
\* called it, that method returns next.
Waited(d, v, cause) ==
  [d EXCEPT !.pc = "done", !.wait_ret = v, !.cause = cause,
            !.ret = IF d.call = "create_custom_model_deployment"
                    THEN deployment_result(d.deployment_arn, v)
                    ELSE v]

\* The caller of ModelTester: create_custom_model_deployment(arn), or
\* _wait_for_deployment(deployment_id, max_wait_time).
tester_calls ==
  /\ deploy.pc = "idle"
  /\ \/ deploy' = [NoDeploy EXCEPT !.pc = "create",
                                   !.call = "create_custom_model_deployment"]
     \/ \E max_wait_time \in MaxWaitTimes :
          deploy' = Waiting("_wait_for_deployment", max_wait_time, None)
  /\ UNCHANGED <<pipelineVars, suite, gen>>

\* create_custom_model_deployment: the request is accepted and the method
\* waits for the deployment, or it is rejected and the method raises.
create_custom_model_deployment ==
  /\ deploy.pc = "create"
  /\ \E ok \in BOOLEAN :
       deploy' = IF ok
                 THEN Waiting(deploy.call, DefaultMaxWaitTime, DeploymentArn)
                 ELSE [deploy EXCEPT !.pc = "done", !.ret = Raised,
                                     !.cause = "raised"]
  /\ UNCHANGED <<pipelineVars, suite, gen>>

\* while time.time() - start_time < max_wait_time: ... else "timed out".
_wait_for_deployment_loop ==
  /\ deploy.pc = "loop"
  /\ deploy' = IF deploy.elapsed < deploy.max_wait_time
               THEN [deploy EXCEPT !.pc = "query"]
               ELSE Waited(deploy, "False", "timeout")
  /\ UNCHANGED <<pipelineVars, suite, gen>>

\* One status query. It succeeds: the error count is reset, ACTIVE returns
\* True, FAILED and STOPPED return False, anything else sleeps. It fails:
\* the error count goes up, and past max_consecutive_errors the method
\* returns False, else it sleeps.
_wait_for_deployment_query ==
  /\ deploy.pc = "query"
  /\ \E ok \in BOOLEAN, response \in DeploymentResponses :
       LET seen == [deploy EXCEPT
                      !.queries = @ + 1,
                      !.late = IF deploy.terminal THEN @ + 1 ELSE @,
                      !.errors = IF ok THEN @ ELSE @ + 1,
                      !.streak = IF ok THEN 0 ELSE @ + 1,
                      !.active = @ \/ (ok /\ response = [status |-> "ACTIVE"]),
                      !.terminal =
                         @ \/ (ok /\ response \in
                                       {[status |-> "ACTIVE"],
                                        [status |-> "FAILED"],
                                        [status |-> "STOPPED"]})]
           status == Get(response, "status", "UNKNOWN")
       IN deploy' =
            IF ok
            THEN LET d == [seen EXCEPT !.consecutive_errors =
                                          after_success(@)]
                 IN IF IsActive(status) THEN Waited(d, "True", "active")
                    ELSE IF IsFailed(status) THEN Waited(d, "False", "failed")
                    ELSE [d EXCEPT !.pc = "sleep"]
            ELSE LET d == [seen EXCEPT !.consecutive_errors = @ + 1]
                 IN IF d.consecutive_errors <= max_consecutive_errors
                    THEN [d EXCEPT !.pc = "sleep"]
                    ELSE Waited(d, "False", "errors")
  /\ UNCHANGED <<pipelineVars, suite, gen>>

\* time.sleep(10)
_wait_for_deployment_sleep ==
  /\ deploy.pc = "sleep"
  /\ deploy' = [deploy EXCEPT !.pc = "loop", !.elapsed = after_sleep(@)]
  /\ UNCHANGED <<pipelineVars, suite, gen>>

(* ------------------- test_model.py: run_test_suite ---------------------- *)

\* Text is a sequence of characters, as str is.
UpperCase ==
  <<"A", "B", "C", "D", "E", "F", "G", "H", "I", "J", "K", "L", "M", "N",
    "O", "P", "Q", "R", "S", "T", "U", "V", "W", "X", "Y", "Z">>

LowerCase ==
  <<"a", "b", "c", "d", "e", "f", "g", "h", "i", "j", "k", "l", "m", "n",
    "o", "p", "q", "r", "s", "t", "u", "v", "w", "x", "y", "z">>

\* A str.lower that leaves every character as it is.
lower_keeps_case(text) == text

\* str.lower()
lower(text) ==
  [k \in 1..Len(text) |->
     IF \E n \in 1..26 : UpperCase[n] = text[k]
     THEN LowerCase[CHOOSE n \in 1..26 : UpperCase[n] = text[k]]
     ELSE text[k]]

\* needle in hay, of two str
Contains(needle, hay) ==
  \E off \in 0..(Len(hay) - Len(needle)) :
    SubSeq(hay, off + 1, off + Len(needle)) = needle

\* test_tickets, without the descriptions
test_tickets ==
  <<[title |-> "Cannot upload files larger than 5MB",
     expected_category |->
       <<"T", "e", "c", "h", "n", "i", "c", "a", "l", " ", "B", "u", "g">>,
     expected_severity |->
       <<"H", "i", "g", "h">>],
    [title |-> "Password reset email not received",
     expected_category |->
       <<"A", "c", "c", "o", "u", "n", "t", " ", "A", "c", "c", "e", "s", "s">>,
     expected_severity |->
       <<"H", "i", "g", "h">>],
    [title |-> "Charged twice for monthly subscription",
     expected_category |->
       <<"B", "i", "l", "l", "i", "n", "g", " ", "I", "s", "s", "u", "e">>,
     expected_severity |->
       <<"H", "i", "g", "h">>],
    [title |-> "Request: Add dark mode to dashboard",
     expected_category |->
       <<"F", "e", "a", "t", "u", "r", "e", " ", "R", "e", "q", "u", "e", "s", "t">>,
     expected_severity |->
       <<"L", "o", "w">>],
    [title |-> "Dashboard loading very slowly",
     expected_category |->
       <<"P", "e", "r", "f", "o", "r", "m", "a", "n", "c", "e", " ", "I", "s", "s", "u", "e">>,
     expected_severity |->
       <<"M", "e", "d", "i", "u", "m">>]>>

\* Responses of the model: the labels of the first ticket as they are
\* written; the labels of the second ticket in capitals; a severity inside
\* another word; a part of a label; nothing.
Responses ==
  <<
    <<"T", "e", "c", "h", "n", "i", "c", "a", "l", " ", "B", "u", "g",
      ",", " ", "H", "i", "g", "h">>,
    <<"A", "C", "C", "O", "U", "N", "T", " ", "A", "C", "C", "E", "S",
      "S", ":", " ", "H", "I", "G", "H">>,
    <<"b", "i", "l", "l", "i", "n", "g", ",", " ", "s", "l", "o",
      "w">>,
    <<"F", "e", "a", "t", "u", "r", "e">>,
    << >>
  >>

\* What invoke_model does for one ticket: it answers a text, it answers a
\* body without the text, or it raises.
Invocations ==
  {[kind |-> "text", text |-> t, error |-> None] :
     t \in {Responses[n] : n \in DOMAIN Responses}}
    \cup {[kind |-> k, text |-> << >>, error |-> k] :
            k \in {"KeyError", "ClientError"}}

\* classify_ticket: the classification, or the error that was caught.
classify_ticket(invocation) ==
  IF invocation.kind = "text"
  THEN [success |-> TRUE, classification |-> invocation.text,
        stop_reason |-> "end_turn"]
  ELSE [success |-> FALSE, error |-> invocation.error]

\* The entry of results for ticket number i.
test_result(i, ticket, result) ==
  IF result.success
  THEN LET classification_text == lower(result.classification)
       IN [test |-> i, title |-> ticket.title, success |-> TRUE,
           category_match |->
             Contains(lower(ticket.expected_category), classification_text),
           severity_match |->
             Contains(lower(ticket.expected_severity), classification_text),
           response |-> result.classification]
  ELSE [test |-> i, title |-> ticket.title, success |-> FALSE,
        error |-> result.error]

\* run_test_suite is called: results = [].
run_test_suite ==
  /\ suite.pc = "idle"
  /\ suite' = [NoSuite EXCEPT !.pc = "loop"]
  /\ UNCHANGED <<pipelineVars, deploy, gen>>

\* One turn of for i, ticket in enumerate(test_tickets, 1).
run_test_suite_ticket ==
  /\ suite.pc = "loop"
  /\ suite.i < Len(test_tickets)
  /\ \E invocation \in Invocations :
       LET i == suite.i + 1
           result == classify_ticket(invocation)
       IN suite' = [suite EXCEPT
                      !.i = i,
                      !.invoked = Append(@, invocation),
                      !.results =
                         Append(@, test_result(i, test_tickets[i], result))]
  /\ UNCHANGED <<pipelineVars, deploy, gen>>

\* return results
run_test_suite_returns ==
  /\ suite.pc = "loop"
  /\ suite.i = Len(test_tickets)
  /\ suite' = [suite EXCEPT !.pc = "done", !.ret = suite.results]
  /\ UNCHANGED <<pipelineVars, deploy, gen>>

(* ------------- generate_support_data.py: SupportTicketGenerator --------- *)

\* self.support_teams
support_teams ==
  [c \in {"Account Access", "Billing Issue", "Feature Request",
          "Technical Bug", "Data Issue", "Performance Issue",
          "General Inquiry"} |->
     CASE c = "Account Access" ->
            {"Identity & Access Team", "Customer Success", "Security Team"}
       [] c = "Billing Issue" ->
            {"Billing Support", "Finance Team", "Account Management"}
       [] c = "Feature Request" ->
            {"Product Team", "Engineering", "Customer Success"}
       [] c = "Technical Bug" ->
            {"Engineering Team", "QA Team", "Technical Support"}
       [] c = "Data Issue" ->
            {"Data Operations", "Engineering Team", "Technical Support"}
       [] c = "Performance Issue" ->
            {"Infrastructure Team", "Engineering Team", "SRE Team"}
       [] c = "General Inquiry" ->
            {"Customer Support", "Customer Success", "Documentation Team"}]

\* ticket_time, by what the correlation step reads of OPEN_DATETIME: the
\* day of the week (Monday is 0) and the hour. A Monday at 8 and at 11, a
\* Tuesday at 10.
OpenTimes ==
  {[dayofweek |-> 0, hour |-> 8], [dayofweek |-> 0, hour |-> 11],
   [dayofweek |-> 1, hour |-> 10]}

\* generate_ticket: the fields of the ticket that the labels depend on.
generate_ticket(ticket_time, category, team) ==
  [CATEGORY |-> category, OPEN_DATETIME |-> ticket_time,
   ASSIGNED_TEAM |-> team]

\* monday_mask & morning_mask
monday_morning(row) ==
  /\ row.OPEN_DATETIME.dayofweek = 0
  /\ row.OPEN_DATETIME.hour >= 8 /\ row.OPEN_DATETIME.hour <= 10

\* SupportTicketGenerator(num_records).generate_dataset(): tickets = [].
generate_dataset_starts ==
  /\ gen.pc = "idle"
  /\ \E num_records \in 1..MaxRecords :
       gen' = [NoDataset EXCEPT !.pc = "loop", !.num_records = num_records]
  /\ UNCHANGED <<pipelineVars, deploy, suite>>

\* One turn of for i in range(self.num_records): the category is drawn,
\* and the team among the teams of that category.
generate_dataset_ticket ==
  /\ gen.pc = "loop"
  /\ Len(gen.tickets) < gen.num_records
  /\ \E ticket_time \in OpenTimes, category \in DOMAIN support_teams :
       \E team \in support_teams[category] :
         gen' = [gen EXCEPT !.tickets =
                   Append(@, generate_ticket(ticket_time, category, team))]
  /\ UNCHANGED <<pipelineVars, deploy, suite>>

\* df = pd.DataFrame(tickets); the CATEGORY of every Monday-morning row is
\* drawn again among two categories; return df.
generate_dataset_returns ==
  /\ gen.pc = "loop"
  /\ Len(gen.tickets) = gen.num_records
  /\ \E choice \in [1..gen.num_records ->
                      {"Account Access", "Technical Bug"}] :
       gen' = [gen EXCEPT
                 !.pc = "done",
                 !.df = [n \in 1..gen.num_records |->
                           IF monday_morning(gen.tickets[n])
                           THEN [gen.tickets[n] EXCEPT !.CATEGORY = choice[n]]
                           ELSE gen.tickets[n]]]
  /\ UNCHANGED <<pipelineVars, deploy, suite>>

(* ---------------------------- specification ---------------------------- *)

Next ==
  \/ main
  \/ construct
  \/ run_pipeline_call
  \/ run_pipeline_use_model
  \/ run_pipeline_return
  \/ call_method
  \/ caller_exit
  \/ list_available_models
  \/ create_s3_bucket_head
  \/ create_s3_bucket_create
  \/ create_s3_bucket_versioning
  \/ create_iam_role_probe
  \/ create_iam_role_create
  \/ create_iam_role_policy
  \/ create_iam_role_settle
  \/ prepare_training_data
  \/ upload_to_s3_train
  \/ upload_to_s3_val
  \/ create_fine_tuning_job
  \/ monitor_training_job_query
  \/ monitor_training_job_sleep
  \/ test_fine_tuned_model
  \/ cleanup_resources
  \/ KeyboardInterrupt
  \/ process_ends
  \/ operator_deletes

Spec == Init /\ [][Next]_vars

\* The process runs: the loop of monitor_training_job goes on to its next
\* query and comes back from its sleep.
LiveSpec ==
  /\ Spec
  /\ WF_vars(monitor_training_job_query)
  /\ WF_vars(monitor_training_job_sleep)

\* The conversion of ticket tables, called on its own.
NextData ==
  \/ construct_for_data
  \/ call_prepare
  \/ prepare_training_data
  \/ caller_exit
  \/ process_ends

SpecData == Init /\ [][NextData]_vars

\* ModelTester: a deployment is created and waited for.
NextDeploy ==
  \/ tester_calls
  \/ create_custom_model_deployment
  \/ _wait_for_deployment_loop
  \/ _wait_for_deployment_query
  \/ _wait_for_deployment_sleep

SpecDeploy == Init /\ [][NextDeploy]_vars

\* ModelTester: the test suite is run.
NextSuite ==
  \/ run_test_suite
  \/ run_test_suite_ticket
  \/ run_test_suite_returns

SpecSuite == Init /\ [][NextSuite]_vars

\* SupportTicketGenerator: a dataset is generated.
NextGen ==
  \/ generate_dataset_starts
  \/ generate_dataset_ticket
  \/ generate_dataset_returns

SpecGen == Init /\ [][NextGen]_vars

\* The process runs: the loop of _wait_for_deployment goes on.
LiveDeploy ==
  /\ SpecDeploy
  /\ WF_vars(_wait_for_deployment_loop)
  /\ WF_vars(_wait_for_deployment_query)
  /\ WF_vars(_wait_for_deployment_sleep)

(* ------------------------------ properties ----------------------------- *)

\* The process was started without a state file.
StartedEmpty == "bucket_name" \notin DOMAIN config

\* The values the state file holds.
FileValues == {stateFile[k] : k \in DOMAIN stateFile}

\* One full run of run_pipeline from an empty state file in which no
\* request failed and the job's queries returned Submitted, InProgress,
\* InProgress, Completed with "model-xyz".
EndToEndRun ==
  /\ pc = "exited" /\ mode = "pipeline" /\ exit = "returned"
  /\ StartedEmpty
  /\ Len(jobs) = 1
  /\ jobs[1].src = EndToEndSource
  /\ jobs[1].n = Len(EndToEndSource.script)

\* C1: once create_fine_tuning_job has returned a job ARN, the state file
\* holds that ARN, so a process started later finds it there.
C1_JobHandlePersisted ==
  (lastCall.m = "create_fine_tuning_job" /\ lastCall.ret # Raised)
    => Recorded("job_arn") = lastCall.ret

\* C2: when a run of the pipeline ends by an exception or an interruption,
\* every resource the run created (bucket, role, job) is recorded in the
\* state file.
C2_FailurePathsResumable ==
  (pc = "exited" /\ mode = "pipeline" /\ exit \in {"raised", "interrupted"})
    => /\ made.bucket # None => Recorded("bucket_name") = made.bucket
       /\ made.role # None =>
            /\ Recorded("role_name") = made.role
            /\ Recorded("role_arn") = RoleArn(made.role)
       /\ made.job # None => Recorded("job_arn") = made.job

\* C3: after the end-to-end run the state file holds the bucket name, the
\* role identifier, the job identifier and the output model identifier.
C3_EndToEndStateFile ==
  EndToEndRun
    => {self.bucket_name, loc.role_arn, loc.job_arn, ModelXyz}
         \subseteq FileValues

\* C4: the end-to-end run issues one create_bucket, one create_role and one
\* job submission, sleeps the poll interval twice, and returns "model-xyz"
\* as the model identifier.
C4_EndToEndActions ==
  EndToEndRun
    => /\ cnt.create_bucket = 1
       /\ cnt.create_role = 1
       /\ cnt.create_job = 1
       /\ cnt.poll_sleep = 2
       /\ run_pipeline_result.model_arn = ModelXyz

\* C4, its case: an end-to-end run has ended.
C4_Witness ==
  /\ EndToEndRun
  /\ cnt.get_job = 4
  /\ okCalls = {"list_available_models", "create_s3_bucket",
                "create_iam_role", "prepare_training_data", "upload_to_s3",
                "create_fine_tuning_job", "monitor_training_job",
                "test_fine_tuned_model", "cleanup_resources"}

C6_RoleReuseBeforeCreate ==
  /\ pc = "create_role"
       => \/ cur.pre.objRoleArn = None
          \/ cnt.get_role = cur.cnt0.get_role + 1
  /\ (lastCall.m = "create_iam_role" /\ lastCall.cause = "reused")
       => /\ lastCall.ret = lastCall.pre.objRoleArn
          /\ lastCall.d.get_role = 1
          /\ lastCall.d.create_role = 0
          /\ lastCall.d.put_role_policy = 0
          /\ lastCall.d.save = 0
          /\ lastCall.fileSame
  /\ (/\ lastCall.m = "create_iam_role"
      /\ lastCall.cause # "interrupted"
      /\ lastCall.pre.recRoleArn # None
      /\ lastCall.pre.roleExists)
       => /\ lastCall.cause = "reused"
          /\ lastCall.ret = lastCall.pre.recRoleArn

\* C6, its case: a run started from a state file that records a role has
\* probed the role and reused it.
C6_Witness ==
  /\ mode = "pipeline"
  /\ lastCall.m = "create_iam_role"
  /\ lastCall.cause = "reused"
  /\ lastCall.pre.recRoleArn # None
  /\ lastCall.ret = lastCall.pre.recRoleArn

\* C7: in run_pipeline no role request (probe or creation) is sent before
\* create_s3_bucket has returned, no job is submitted before
\* create_iam_role has returned, and no status is queried before
\* create_fine_tuning_job has returned.
C7_PipelineOrder ==
  mode = "pipeline"
    => /\ cnt.get_role + cnt.create_role > 0
            => "create_s3_bucket" \in okCalls
       /\ cnt.create_job > 0 => "create_iam_role" \in okCalls
       /\ cnt.get_job > 0 => "create_fine_tuning_job" \in okCalls

\* C7, its case: a run has gone through the three steps and queried the
\* status of its job.
C7_Witness ==
  /\ mode = "pipeline"
  /\ cnt.get_job > 0
  /\ {"create_s3_bucket", "create_iam_role", "create_fine_tuning_job"}
       \subseteq okCalls

\* C8: a call of create_fine_tuning_job made when no role ARN is recorded,
\* in the state file or on the object, raises without a request to the
\* provider.
C8_SubmitFailsFastWithoutGrant ==
  (/\ lastCall.m = "create_fine_tuning_job"
   /\ lastCall.pre.recRoleArn = None
   /\ lastCall.pre.objRoleArn = None)
    => /\ lastCall.ret = Raised
       /\ lastCall.d.create_job = 0

\* C9: the value monitor_training_job returns when it is interrupted
\* differs from the value it returns when the job has failed or was
\* stopped.
C9_InterruptDistinguishable ==
  (monSeen.interrupted # Unseen /\ monSeen.failed # Unseen)
    => monSeen.interrupted # monSeen.failed

\* C10: once monitor_training_job has returned for a job on a terminal
\* status, a later call with the same job ARN returns the same value and
\* queries the provider no more.
C10_TerminalOutcomeStable ==
  (/\ lastCall.m = "monitor_training_job"
   /\ lastCall.cause # "interrupted"
   /\ lastCall.pre.terminal # NoOutcome)
    => /\ lastCall.ret = lastCall.pre.terminal.ret
       /\ lastCall.d.get_job = 0

\* The query result a finished call of monitor_training_job read last.
LastResponse(call) ==
  LET job == jobs[JobOf(call.arg)]
  IN job.src.script[IF job.n = 0 THEN Len(job.src.script) ELSE job.n]

\* C11: when the status query on which monitor_training_job returns says
\* Completed, the value returned is the output model identifier of that
\* response; a call that ends for any other cause (Failed, Stopped, a query
\* error, an interruption) returns no model identifier.
C11_CompletedReturnsOutputModel ==
  lastCall.m = "monitor_training_job"
    => /\ lastCall.cause = "Completed"
            => /\ LastResponse(lastCall).status = "Completed"
               /\ lastCall.ret = LastResponse(lastCall).outputModelArn
       /\ lastCall.cause # "Completed" => lastCall.ret = None

\* C11, its case: a call has returned on a Completed response that carries
\* "model-xyz".
C11_Witness ==
  /\ lastCall.m = "monitor_training_job"
  /\ lastCall.cause = "Completed"
  /\ LastResponse(lastCall).outputModelArn = ModelXyz
  /\ lastCall.ret = ModelXyz

\* The examples the last call of prepare_training_data made.
Examples == Len(prep.training_data) + Len(prep.validation_data)

\* C12: a call of prepare_training_data whose training set has fewer than
\* 8 examples raises, and it writes no dataset file; in run_pipeline no
\* file is uploaded and no job submitted after it.
C12_DatasetFloor ==
  (prep.state \in {"raised", "returned"}
     /\ Len(prep.training_data) < MinTrainingSamples)
    => /\ prep.state = "raised"
       /\ prep.written = {}
       /\ cnt.write_file = 0
       /\ cnt.upload_file = 0
       /\ cnt.create_job = 0
       /\ lastCall.m = "prepare_training_data"
       /\ lastCall.ret = Raised

\* C12, its case: run_pipeline has read three complete tickets and the
\* conversion has raised.
C12_Witness ==
  /\ mode = "pipeline"
  /\ prep.df = ThreeTickets
  /\ prep.state = "raised"
  /\ Len(prep.training_data) = 4
  /\ exit = "raised"

\* C13: for every table, train_ratio from 0 to 1 and max_samples, the
\* training examples and the validation examples prepare_training_data
\* makes are together at most max_samples.
C13_DatasetCeiling ==
  prep.state \in {"raised", "returned"} => Examples <= prep.max_samples

\* C13, its case: a table with more than max_tickets rows was cut down and
\* the call has written max_samples examples.
C13_Witness ==
  /\ prep.state = "returned"
  /\ Len(prep.df) > max_tickets(prep.max_samples)
  /\ Examples = prep.max_samples
  /\ prep.written = DatasetFiles

\* C14: a call of create_iam_role that creates a role sends create_role
\* and put_role_policy and then waits the settle time once before it
\* returns; a call that reuses the recorded role does not wait; so in
\* run_pipeline a job is submitted with a role of this run only after the
\* wait.
C14_SettleDelay ==
  /\ (lastCall.m = "create_iam_role" /\ lastCall.cause = "created")
       => /\ lastCall.d.create_role = 1
          /\ lastCall.d.put_role_policy = 1
          /\ lastCall.d.settle_sleep = 1
  /\ (lastCall.m = "create_iam_role" /\ lastCall.cause = "reused")
       => lastCall.d.settle_sleep = 0
  /\ cnt.settle_sleep > 0
       => /\ made.role # None
          /\ made.role \in roles
          /\ made.role \in policies
  /\ (mode = "pipeline" /\ made.role # None /\ cnt.create_job > 0)
       => cnt.settle_sleep = 1

\* C14, its case: a run has created a role, waited, and submitted its job.
C14_Witness ==
  /\ mode = "pipeline"
  /\ made.role # None
  /\ cnt.create_role = 1
  /\ cnt.settle_sleep = 1
  /\ cnt.create_job = 1

\* C15: when the job monitored by run_pipeline has failed or was stopped,
\* monitor_training_job returns (None) and does not raise, the model test
\* is not called, and run_pipeline, unless the operator interrupts it,
\* returns to main() a result without a model identifier.
C15_TerminalFailureEndsRun ==
  (mode = "pipeline" /\ monSeen.failed # Unseen)
    => /\ monSeen.failed = None
       /\ loc.model_arn = None
       /\ cnt.test = 0
       /\ exit # "raised"
       /\ (pc = "exited" /\ exit # "interrupted")
            => /\ exit = "returned"
               /\ run_pipeline_result.model_arn = None

\* C15, its case: a run whose job failed or was stopped has returned.
C15_Witness ==
  /\ mode = "pipeline"
  /\ monSeen.failed = None
  /\ "cleanup_resources" \in okCalls
  /\ pc = "exited"
  /\ exit = "returned"

\* C16: when create_s3_bucket or create_iam_role raises because a creation
\* request was rejected, the state file is what it was when the method was
\* called, and run_pipeline ends with the exception.
C16_ProvisioningErrorKeepsStateFile ==
  (lastCall.m \in {"create_s3_bucket", "create_iam_role"}
     /\ lastCall.cause = "raised")
    => /\ lastCall.fileSame
       /\ lastCall.d.save = 0
       /\ lastCall.ret = Raised
       /\ mode = "pipeline" => pc = "exited" /\ exit = "raised"

\* C16, its case: in a run that has a state file, put_role_policy was
\* rejected after the role was created.
C16_Witness ==
  /\ mode = "pipeline"
  /\ lastCall.m = "create_iam_role"
  /\ lastCall.cause = "raised"
  /\ lastCall.d.create_role = 1
  /\ lastCall.d.put_role_policy = 1
  /\ fileExists
  /\ exit = "raised"

\* The requests that create or change something at the provider, but for
\* the uploads.
MutationRequests ==
  {"create_bucket", "put_bucket_versioning", "create_role",
   "put_role_policy", "create_job"}

\* C17: one execution of run_pipeline sends each creation request at most
\* once and each of the two uploads at most once; when one of them fails
\* the run is over at once, with the exception; and a status query that
\* fails is the last one of the run.
C17_NothingRetried ==
  mode = "pipeline"
    => /\ \A r \in MutationRequests : cnt[r] <= 1
       /\ cnt.upload_file <= 2
       /\ exit = "raised" => pc = "exited" /\ lastCall.ret = Raised
       /\ (lastCall.m = "monitor_training_job" /\ lastCall.cause = "error")
            => cnt.get_job = lastCall.d.get_job
       /\ "monitor_training_job" \in okCalls
            => pc \notin {"get_job", "poll_sleep"}

\* C17, its case: the job submission of a run was rejected, after every
\* earlier request had been sent once.
C17_Witness ==
  /\ mode = "pipeline"
  /\ pc = "exited" /\ exit = "raised"
  /\ lastCall.m = "create_fine_tuning_job"
  /\ cnt.create_bucket = 1 /\ cnt.put_bucket_versioning = 1
  /\ cnt.create_role = 1 /\ cnt.put_role_policy = 1
  /\ cnt.upload_file = 2
  /\ cnt.create_job = 1

\* What one step of a running process leaves in place: while a method of
\* the pipeline runs or its caller is between two calls, no bucket, no
\* role and no state file goes away; and a step of cleanup_resources
\* changes nothing at the provider, in the state file or on the object and
\* sends no request.
KeepsResources ==
  /\ pc \notin {"off", "exited"}
       => /\ buckets \subseteq buckets'
          /\ versioned \subseteq versioned'
          /\ roles \subseteq roles'
          /\ policies \subseteq policies'
          /\ fileExists => fileExists'
  /\ pc = "cleanup"
       => /\ UNCHANGED <<provVars, fileVars, objVars>>
          /\ \A r \in Requests \ {"cleanup"} : cnt'[r] = cnt[r]

\* C18: no step of run_pipeline or of a method called on the pipeline
\* deletes the state file, a bucket or a role, and cleanup_resources, with
\* any flags, sends no request and leaves the state file and the
\* identifiers as they are.
C18_NothingDeleted == [][KeepsResources]_vars

\* C18, its case: cleanup_resources was called with both flags set on a
\* pipeline whose recorded bucket and role exist, and has returned.
C18_Witness ==
  /\ lastCall.m = "cleanup_resources"
  /\ lastCall.arg = CleanupFlags(TRUE, TRUE)
  /\ lastCall.pre.bucketExists
  /\ lastCall.pre.roleExists
  /\ self.bucket_name \in buckets
  /\ self.role_name \in roles
  /\ fileExists

\* What one step of a running process does to the jobs it has submitted:
\* every job stays, under its name, with its role and its course of
\* statuses; only a status query reads the next status; and the step that
\* interrupts the monitor leaves the jobs as they are.
OnlyObservesJobs ==
  pc \notin {"off", "exited"}
    => /\ Len(jobs') >= Len(jobs)
       /\ \A k \in DOMAIN jobs :
            /\ jobs'[k].name = jobs[k].name
            /\ jobs'[k].roleArn = jobs[k].roleArn
            /\ jobs'[k].src = jobs[k].src
            /\ pc # "get_job" => jobs'[k].n = jobs[k].n
       /\ (pc \in {"get_job", "poll_sleep"} /\ pc' = "caller"
             /\ lastCall'.cause = "interrupted")
            => jobs' = jobs

\* C19: once a job is submitted the pipeline only queries its status: no
\* step stops, cancels or deletes it, and after an interruption of the
\* monitor the job goes on and can be monitored again under its ARN.
C19_JobOnlyObserved == [][OnlyObservesJobs]_vars

\* C19, its case: the monitor was interrupted, and a second call with the
\* same ARN has followed the job to Completed.
C19_Witness ==
  /\ monSeen.interrupted = None
  /\ ncalls = 2
  /\ lastCall.m = "monitor_training_job"
  /\ lastCall.cause = "Completed"
  /\ lastCall.ret = ModelXyz

\* monitor_training_job is in its loop.
Monitoring == pc \in {"get_job", "poll_sleep"}

\* A call of monitor_training_job that no query error and no interruption
\* ended has returned on a query that said Completed, Failed or Stopped
\* (the job's last response is that query's until the job is queried again).
ReturnsOnTerminal ==
  (lastCall.m = "monitor_training_job"
     /\ lastCall.cause \notin {"error", "interrupted"})
    => /\ lastCall.cause \in TerminalStatuses
       /\ ~Monitoring => LastResponse(lastCall).status = lastCall.cause

\* C20: monitor_training_job, once in its loop on a job whose status gets
\* to Completed, Failed or Stopped, returns in the end; and without a query
\* error or an interruption it returns only on such a status, never while
\* the job is still in progress.
C20_PollingReachesTerminal ==
  /\ []ReturnsOnTerminal
  /\ Monitoring ~> ~Monitoring

\* C20, its case: the monitor has slept on InProgress and then returned on
\* Failed.
C20_Witness ==
  /\ lastCall.m = "monitor_training_job"
  /\ lastCall.cause = "Failed"
  /\ lastCall.d.poll_sleep >= 1
  /\ lastCall.d.get_job = 2

\* The role a finished call of create_iam_role has returned is a new one,
\* or the one the state file recorded when the call was made.
ReturnedRole(call) ==
  /\ call.m = "create_iam_role"
  /\ \/ call.cause = "created"
     \/ /\ call.cause = "reused"
        /\ call.pre.recRoleArn # None
        /\ call.ret = call.pre.recRoleArn

\* C21: when create_iam_role returns a role, created by the call or reused
\* from the state file, the role carries the permission policy and the
\* resources of the policy are the bucket held as bucket_name and the
\* objects under it; and the training, validation and output locations of
\* every job of the object are in that bucket.
C21_GrantScopeMatchesBucket ==
  /\ ReturnedRole(lastCall)
       => /\ lastCall.ret = RoleArn(self.role_name)
          /\ self.role_name \in policies
          /\ self.role_name \in DOMAIN scope
          /\ scope[self.role_name] = PolicyResources(self.bucket_name)
  /\ \A k \in DOMAIN jobs :
       /\ jobs[k].trainingData = S3Uri(self.bucket_name, train_key)
       /\ jobs[k].validationData = S3Uri(self.bucket_name, val_key)
       /\ jobs[k].outputData = output_s3_uri(self.bucket_name)

\* The identifiers main() read from the state file it found.
OldIdentifiers ==
  {resume.old[k] : k \in DOMAIN resume.old
                        \cap {"bucket_name", "model_name", "role_arn",
                              "role_name"}} \ {None}

\* The identifiers the requests of the current process carry: those the
\* object holds, the role run_pipeline passes on, and those of the bucket,
\* the role and the jobs the process has made.
RunIdentifiers ==
  ({self.bucket_name, self.model_name, self.role_name, self.role_arn,
    loc.role_arn, made.bucket, made.role}
     \cup {jobs[k].name : k \in DOMAIN jobs}
     \cup {jobs[k].roleArn : k \in DOMAIN jobs}) \ {None}

\* C22: in a run of main() that found the state file, on the response 'y'
\* the file stays, the run works with the recorded bucket name and model
\* name, holds the recorded role until it creates one, and a role it
\* reuses is the recorded one; on any other response the file is removed,
\* the run starts from an empty configuration, and no identifier of the old
\* file is among those its requests carry.
C22_ResumabilitySignal ==
  (mode = "pipeline" /\ resume.asked)
    => /\ resume.response = "y"
            => /\ fileExists
               /\ self.bucket_name = resume.old.bucket_name
               /\ self.model_name = resume.old.model_name
               /\ cnt.create_role = 0
                    => /\ self.role_arn = resume.old.role_arn
                       /\ self.role_name = resume.old.role_name
               /\ (lastCall.m = "create_iam_role"
                     /\ lastCall.cause = "reused")
                    => lastCall.ret = resume.old.role_arn
       /\ resume.response # "y"
            => /\ StartedEmpty
               /\ cnt.save = 0 => ~fileExists
               /\ RunIdentifiers \cap OldIdentifiers = {}

\* C22, its case: the operator has answered with the empty line to a state
\* file that recorded a bucket and a role, and the run has made its own
\* bucket and role and submitted its job.
C22_Witness ==
  /\ mode = "pipeline"
  /\ resume.asked
  /\ resume.response = ""
  /\ resume.old.role_arn # None
  /\ made.bucket # None
  /\ made.role # None
  /\ Len(jobs) = 1

\* The job the monitor is called on, and the response its next query reads.
MonitoredJob == jobs[JobOf(cur.arg)]
NextResponse == QueryResult(MonitoredJob.src, MonitoredJob.n)

\* One step of the loop of monitor_training_job: from a query it goes to
\* the sleep only on InProgress, to the next query at once only on a status
\* that is neither InProgress nor terminal, and it returns (no error, no
\* interruption) only on a terminal status; the query itself sleeps not;
\* and the sleep is one interval, followed by the next query.
PacedStep ==
  /\ pc = "get_job"
       => /\ pc' = "poll_sleep" => NextResponse.status = "InProgress"
          /\ pc' = "get_job"
               => NextResponse.status
                    \notin {"InProgress"} \cup TerminalStatuses
          /\ (pc' = "caller"
                /\ lastCall'.cause \notin {"error", "interrupted"})
               => NextResponse.status \in TerminalStatuses
          /\ cnt'.poll_sleep = cnt.poll_sleep
          /\ cnt'.get_job <= cnt.get_job + 1
  /\ pc = "poll_sleep"
       => \/ /\ pc' = "get_job"
             /\ cnt'.poll_sleep = cnt.poll_sleep + 1
             /\ cnt'.get_job = cnt.get_job
          \/ /\ pc' = "caller"
             /\ lastCall'.cause = "interrupted"
             /\ cnt' = cnt
  /\ cnt'.poll_sleep > cnt.poll_sleep => pc = "poll_sleep"

\* The responses among the first n of a source that say InProgress.
InProgressAmong(src, n) ==
  Cardinality({i \in 1..n : src.script[i].status = "InProgress"})

\* The monitor of run_pipeline, returned on a terminal status, has sent as
\* many queries as the job has answered and slept once for each answer
\* that said InProgress.
PacedCall ==
  (mode = "pipeline" /\ lastCall.m = "monitor_training_job"
     /\ lastCall.cause \in TerminalStatuses)
    => /\ lastCall.d.get_job = jobs[1].n
       /\ lastCall.d.poll_sleep = InProgressAmong(jobs[1].src, jobs[1].n)

\* C23: monitor_training_job sleeps the poll interval once after each
\* status query that returns InProgress and not after any other result; a
\* status that is neither InProgress nor Completed, Failed or Stopped is
\* followed at once by the next query.
C23_PollPacing ==
  /\ [][PacedStep]_vars
  /\ []PacedCall

\* C23, its case: the monitor has read Submitted, InProgress, InProgress,
\* Completed in four queries and slept twice.
C23_Witness ==
  /\ lastCall.m = "monitor_training_job"
  /\ lastCall.cause = "Completed"
  /\ jobs[JobOf(lastCall.arg)].src = EndToEndSource
  /\ lastCall.d.get_job = 4
  /\ lastCall.d.poll_sleep = 2

\* The four identifiers _save_config writes and __init__ reads back.
SavedIdentifiers == {"bucket_name", "model_name", "role_arn", "role_name"}

\* A step that saves leaves a state file from which a pipeline object
\* constructed later takes the four identifiers the saving object holds.
RoundTrip ==
  cnt'.save > cnt.save
    => /\ fileExists'
       /\ LET later == __init__(_load_config(fileExists', stateFile'),
                                clock' + 1)
          IN \A k \in SavedIdentifiers : later[k] = self'[k]

\* C24: after every _save_config a new BedrockSupportPipeline constructed
\* on the state file holds the bucket_name, model_name, role_arn and
\* role_name of the object that saved, whether the role is set or not.
C24_StateRoundTrip == [][RoundTrip]_vars

\* C24, its case: an object without a role has saved, the file says null
\* for the role, and a later object has read the file and holds the same
\* identifiers.
C24_Witness ==
  /\ fileExists
  /\ stateFile.role_arn = "null"
  /\ stateFile.role_name = "null"
  /\ runs = 2
  /\ cnt.save = 0
  /\ "bucket_name" \in DOMAIN config
  /\ self.role_arn = None
  /\ self.bucket_name = stateFile.bucket_name

(* ------------------------- ModelTester: deployment ---------------------- *)

\* _wait_for_deployment has returned.
WaitReturned == deploy.wait_ret # None

\* The loop is entered with the time used up: it returns False next.
TimesOut ==
  (deploy.pc = "loop" /\ deploy.elapsed >= deploy.max_wait_time)
    => (deploy'.pc = "done" /\ deploy'.wait_ret = "False")

\* What the call has returned, by what its queries answered.
ReturnsByStatus ==
  /\ deploy.active <=> deploy.wait_ret = "True"
  /\ deploy.terminal => WaitReturned
  /\ (deploy.terminal /\ ~deploy.active) => deploy.wait_ret = "False"
  /\ deploy.streak > max_consecutive_errors => deploy.wait_ret = "False"
  /\ WaitReturned => deploy.wait_ret \in {"True", "False"}
  /\ deploy.late = 0

\* C25: _wait_for_deployment returns True if and only if one of its status
\* queries answered ACTIVE; it returns False when a query answers FAILED or
\* STOPPED, when more than max_consecutive_errors queries in a row fail, and
\* when max_wait_time has elapsed; no status query follows one that
\* answered ACTIVE, FAILED or STOPPED.
C25_WaitResult ==
  /\ []ReturnsByStatus
  /\ [][TimesOut]_vars

\* True is returned after some queries failed and some found the
\* deployment not ready.
C25_Witness ==
  /\ deploy.call = "_wait_for_deployment"
  /\ deploy.wait_ret = "True"
  /\ deploy.errors > 0
  /\ deploy.queries > deploy.errors + 1

\* C26: the counter of consecutive errors is the number of queries that
\* failed since the last successful one; the method gives up because of
\* query errors exactly when max_consecutive_errors + 1 = 7 queries in a
\* row have failed, however many failed before.
C26_ErrorTolerance ==
  /\ deploy.consecutive_errors = deploy.streak
  /\ deploy.streak <= max_consecutive_errors + 1
  /\ deploy.cause = "errors" <=> deploy.streak = max_consecutive_errors + 1
  /\ deploy.cause = "errors" => deploy.wait_ret = "False"

\* The method gave up on the seventh failure in a row, after more failures
\* than that in total.
C26_Witness ==
  /\ deploy.cause = "errors"
  /\ deploy.streak = 7
  /\ deploy.errors > 2 * max_consecutive_errors

\* No more than max_wait_time / 10 status queries are made.
C27_QueriesWithinQuotient ==
  deploy.queries * SleepSeconds <= deploy.max_wait_time

\* Every query is made before max_wait_time has elapsed, the queries one
\* sleep apart.
QueriesBounded ==
  deploy.queries > 0
    => (deploy.queries - 1) * SleepSeconds < deploy.max_wait_time

\* C27: _wait_for_deployment returns, whatever the queries answer, after
\* no more than max_wait_time / 10 status queries, rounded up.
C27_WaitTerminates ==
  /\ []QueriesBounded
  /\ (deploy.pc = "loop") ~> (deploy.pc = "done" /\ WaitReturned)

\* The default wait timed out after its 60 queries, the deployment never
\* leaving "Creating".
C27_Witness ==
  /\ deploy.cause = "timeout"
  /\ deploy.max_wait_time = DefaultMaxWaitTime
  /\ deploy.queries = 60
  /\ deploy.errors = 0

\* C28: when the creation request succeeded, create_custom_model_deployment
\* returns the deployment ARN whatever _wait_for_deployment returned, and
\* raises only when the request itself failed.
C28_ArnWhateverTheWait ==
  deploy.call = "create_custom_model_deployment"
    => /\ WaitReturned => deploy.ret = DeploymentArn
       /\ deploy.ret = Raised => (deploy.deployment_arn = None /\ ~WaitReturned)

\* The ARN is returned of a deployment that failed.
C28_Witness ==
  /\ deploy.call = "create_custom_model_deployment"
  /\ deploy.wait_ret = "False"
  /\ deploy.cause \in {"failed", "errors", "timeout"}
  /\ deploy.ret = DeploymentArn

(* ------------------------- ModelTester: test suite ---------------------- *)

\* Two characters are the same letter, whatever their case.
SameLetter(a, b) ==
  \/ a = b
  \/ \E n \in 1..26 : {a, b} = {UpperCase[n], LowerCase[n]}

\* The label occurs in the response, letter by letter, whatever the case.
OccursIn(label, response) ==
  \E off \in 0..(Len(response) - Len(label)) :
    \A k \in 1..Len(label) : SameLetter(label[k], response[off + k])

\* Entry k of the results is the one of ticket k, for what the invocation
\* of ticket k did.
ResultOfTicket(k) ==
  LET r == suite.results[k]
      ticket == test_tickets[k]
      invocation == suite.invoked[k]
  IN /\ r.test = k
     /\ r.title = ticket.title
     /\ r.success = (invocation.kind = "text")
     /\ IF invocation.kind = "text"
        THEN /\ DOMAIN r = {"test", "title", "success", "category_match",
                            "severity_match", "response"}
             /\ r.response = invocation.text
             /\ r.category_match
                  = OccursIn(ticket.expected_category, invocation.text)
             /\ r.severity_match
                  = OccursIn(ticket.expected_severity, invocation.text)
        ELSE DOMAIN r = {"test", "title", "success", "error"}

\* C29: run_test_suite returns one result per test ticket, in the order of
\* the tickets, whatever invocations fail; a failed invocation gives a
\* result with success false and no match fields and the suite goes on; a
\* successful one gives match fields that are true exactly when the
\* expected label occurs in the response, case ignored.
C29_OneResultPerTicket ==
  /\ Len(suite.results) = suite.i
  /\ Len(suite.invoked) = suite.i
  /\ \A k \in 1..suite.i : ResultOfTicket(k)
  /\ suite.pc = "done"
       => (suite.i = Len(test_tickets) /\ suite.ret = suite.results)

\* The suite returned after the first and the last invocation failed, the
\* second was answered in capitals and matched, and the fourth matched
\* its severity inside another word.
C29_Witness ==
  /\ suite.pc = "done"
  /\ Len(suite.ret) = 5
  /\ suite.invoked[1].kind = "ClientError"
  /\ suite.invoked[5].kind = "KeyError"
  /\ suite.invoked[2].text = Responses[2]
  /\ suite.ret[2].category_match /\ suite.ret[2].severity_match
  /\ suite.invoked[4].text = Responses[3]
  /\ suite.ret[4].severity_match /\ ~suite.ret[4].category_match

(* ------------------------ SupportTicketGenerator ------------------------ *)

\* C30: in every record of the dataset that generate_dataset returns, the
\* ASSIGNED_TEAM is one of the support teams of the record's CATEGORY, the
\* records of a Monday morning included.
C30_LabelConsistency ==
  gen.pc = "done"
    => \A n \in 1..Len(gen.df) :
         gen.df[n].ASSIGNED_TEAM \in support_teams[gen.df[n].CATEGORY]

====
